---- MODULE Spec2Model ----
(***************************************************************************)
(* The IPC provider backend of mist (modules/ipc/ipcProviderBackend.js):   *)
(* per-owner connections to the ethereum node, the shared pending connect, *)
(* the request router with its sanitizer, and the response shaping.        *)
(*                                                                         *)
(* Every in-flight IPC call is a slot of `calls` with a position `pc` in   *)
(* its promise chain.  A `.then` callback is one action; the callbacks of  *)
(* different chains interleave freely, which over-approximates bluebird's  *)
(* queue (it runs the callbacks that are ready in one drain).              *)
(*                                                                         *)
(* JSON objects are functions from field names to values.  A property      *)
(* whose value is `undefined` is left out of the function: that is what    *)
(* JSON.stringify makes of it on the way to the caller.                    *)
(***************************************************************************)
EXTENDS Integers, Sequences, FiniteSets, TLC

\* ------------------------------------------------------------------ bounds
NumOwners == 2
MaxCalls == 2
MaxBatch == 2

Owners == 1..NumOwners
CallIds == 1..MaxCalls

\* ------------------------------------------------------- JSON-RPC payloads
\* Method names a caller may send: one with a dedicated processor that is
\* denied in batches, one with a dedicated processor, one the base
\* sanitizer denies, one that is plainly forwarded, one that is the name of
\* a property every object inherits, and one that is a replacement pattern
\* of String.prototype.replace.
Methods == {"eth_sendTransaction", "eth_accounts", "eth_foo", "eth_call", "constructor", "$&"}

\* Request ids: 0 is a falsy id, 7 a truthy one.
Ids == {0, 7}

Entries == [method : Methods, params : {"p"}, id : Ids]

\* Batches of one method sequence per length; entry i carries id 7 when i is
\* odd and 0 when even, so that ids differ inside a batch.
BatchOf(ms) == [i \in 1..Len(ms) |-> [method |-> ms[i], params |-> "p", id |-> IF i % 2 = 1 THEN 7 ELSE 0]]

MethodSeqs == UNION {[1..n -> Methods] : n \in 0..MaxBatch}

\* The JSON value null as an item of an array: reading a property off it
\* throws a TypeError.
NullItem == [null |-> TRUE]

\* The request strings a caller writes: text that is no JSON, the JSON of
\* one request object, the JSON of an array of request objects, and the
\* JSON text [null].
RawPayloads ==
    {[t |-> "bad", v |-> <<>>]}
    \cup {[t |-> "single", v |-> e] : e \in Entries}
    \cup {[t |-> "batch", v |-> BatchOf(ms)] : ms \in MethodSeqs}
    \cup {[t |-> "batch", v |-> <<NullItem>>]}

\* Whether reading `.method` off the payload's items throws.
NullInside(raw) == raw.t = "batch" /\ \E i \in 1..Len(raw.v) : "null" \in DOMAIN raw.v[i]

IsArray(raw) == raw.t = "batch"

\* ------------------------------------------------------------------ errors
\* A message is a sequence of segments; a quoted segment 'xyz' is [q |-> TRUE].
Txt(s) == [q |-> FALSE, s |-> s]
Quoted(s) == [q |-> TRUE, s |-> s]

ERRORS ==
    [INVALID_PAYLOAD |-> [code |-> -32600, message |-> <<Txt("Payload invalid.")>>],
     METHOD_DENIED |-> [code |-> -32601, message |-> <<Txt("Method "), Quoted("__method__"), Txt(" not allowed.")>>],
     METHOD_TIMEOUT |-> [code |-> -32603, message |-> <<Txt("Request timed out for method  "), Quoted("__method__"), Txt(".")>>],
     TX_DENIED |-> [code |-> -32603, message |-> <<Txt("Transaction denied")>>],
     BATCH_TX_DENIED |-> [code |-> -32603, message |-> <<Txt("Transactions denied, sendTransaction is not allowed in batch requests.")>>]]

\* What JSON.parse throws on text that is no JSON: a SyntaxError, which has a
\* message and no code.
SyntaxError == [message |-> <<Txt("Unexpected token in JSON")>>]

\* What `conn.socket` throws when the call got no connection entry.
TypeError == [message |-> <<Txt("Cannot read property "), Quoted("socket"), Txt(" of undefined")>>]

\* What calling `.exec` throws on a value that has none.
NotAFunction == [message |-> <<Txt("this._processors[finalPayload.method].exec is not a function")>>]

\* ------------------------------------------------------------ object helpers
Extend(a, b) == [f \in (DOMAIN a) \cup (DOMAIN b) |-> IF f \in DOMAIN b THEN b[f] ELSE a[f]]

Delete(a, fs) == [f \in (DOMAIN a) \ fs |-> a[f]]

Has(a, f) == f \in DOMAIN a

\* `item.method` inside a string concatenation: "undefined" when absent.
MethodText(item) == IF Has(item, "method") THEN item.method ELSE "undefined"

\* /'[a-z_]*'/i : a quoted segment of letters and underscores only.
MatchesPlaceholder(seg) == seg.q /\ seg.s \in {"__method__", "socket"}

\* What a replacement string puts between the quotes for a match: the
\* pattern $& stands for the matched text, quotes included; any other method
\* name of the model stands for itself.
Replacement(method, matched) ==
    IF method = "$&" THEN "'" \o matched \o "'" ELSE method

\* message.replace(/'[a-z_]*'/i, "'" + method + "'"): the first match only.
ReplacePlaceholder(msg, method) ==
    LET hits == {i \in 1..Len(msg) : MatchesPlaceholder(msg[i])}
    IN  IF hits = {} THEN msg
        ELSE LET k == CHOOSE i \in hits : \A j \in hits : i <= j
             IN  [i \in 1..Len(msg) |-> IF i = k THEN Quoted(Replacement(method, msg[i].s)) ELSE msg[i]]

\* ------------------------------------------------------- response shaping
\* What the text of a request string looks like to the code that reads
\* `.method` and `.id` off it when JSON.parse failed: a string, which has a
\* length and neither field.
StringItem == [length |-> 3]

\* JSON.parse(originalPayloadStr) of a string that parses: the object, or the
\* array of objects.
Parsed(raw) == raw.v

\* The `payload` variable of _sendRequest as the catch handler and
\* _makeResponsePayload see it: the parsed value, or still the string.
PayloadItems(raw) ==
    CASE raw.t = "bad" -> <<StringItem>>
      [] raw.t = "single" -> <<raw.v>>
      [] raw.t = "batch" -> raw.v

\* The argument the catch handler builds from what was thrown:
\* {message: err.message, code: err.code}, undefined properties left out.
ErrorArg(err) ==
    [f \in (DOMAIN err) \cap {"message", "code"} |-> err[f]]

\* One item of _makeErrorResponsePayload's map.
MakeErrorItemWithoutId(item, error) ==
    LET e0 == Extend([jsonrpc |-> "2.0"], error)
        e1 == IF Has(e0, "message") /\ Len(e0.message) > 0
              THEN Extend(Delete(e0, {"message"}),
                          [error |-> [message |-> ReplacePlaceholder(e0.message, MethodText(item))]])
              ELSE e0
    IN  Delete(e1, {"params", "method", "id"})

MakeErrorItemKeepsRequestFields(item, error) ==
    LET e0 == Extend(Extend(item, [jsonrpc |-> "2.0"]), error)
        e1 == IF Has(e0, "message") /\ Len(e0.message) > 0
              THEN Extend(Delete(e0, {"message"}),
                          [error |-> [message |-> ReplacePlaceholder(e0.message, MethodText(item))]])
              ELSE e0
    IN  IF Has(item, "id") THEN Extend(e1, [id |-> item.id]) ELSE Delete(e1, {"id"})

MakeErrorItem(item, error) ==
    LET e0 == Extend([jsonrpc |-> "2.0"], error)
        e1 == IF Has(e0, "message") /\ Len(e0.message) > 0
              THEN Extend(Delete(e0, {"message"}),
                          [error |-> [message |-> ReplacePlaceholder(e0.message, MethodText(item))]])
              ELSE e0
        e2 == Delete(e1, {"params", "method"})
    IN  IF Has(item, "id") THEN Extend(e2, [id |-> item.id]) ELSE Delete(e2, {"id"})

\* _makeErrorResponsePayload(originalPayload, error): one entry per item of
\* the original payload, all built from the one error.
MakeErrorResponsePayload(raw, error) ==
    LET items == PayloadItems(raw)
    IN  [t |-> IF IsArray(raw) THEN "batch" ELSE "single",
         v |-> [i \in 1..Len(items) |-> MakeErrorItem(items[i], error)]]

\* `if (item.id)`: an absent id and the id 0 are falsy.
Truthy(item, f) == Has(item, f) /\ item[f] # 0

\* One item of _makeResponsePayload's map.
MakeResponseItem(item, finalResult) ==
    LET ret0 == IF Has(finalResult, "error")
                THEN MakeErrorItem(item, finalResult.error)
                ELSE IF Has(finalResult, "result")
                     THEN Extend(item, [result |-> finalResult.result])
                     ELSE Delete(item, {"result"})
        ret1 == IF Truthy(item, "id") THEN Delete(ret0, {"params", "method"}) ELSE ret0
    IN  Extend(ret1, [jsonrpc |-> "2.0"])

\* _makeResponsePayload(originalPayload, value); `value` is given as the
\* sequence finalValue the code indexes.
MakeResponsePayload(raw, finalValue) ==
    LET items == PayloadItems(raw)
    IN  [t |-> IF IsArray(raw) THEN "batch" ELSE "single",
         v |-> [i \in 1..Len(items) |-> MakeResponseItem(items[i], finalValue[i])]]

\* ------------------------------------------------------ method processors
\* The processors loaded from the methods directory: the base processor and
\* the dedicated ones.
Processors == {"base", "eth_accounts", "eth_sendTransaction"}

\* Methods the base sanitizer refuses.
DeniedMethods == {"eth_foo"}

\* processors.base.sanitizePayload(conn, p): attaches METHOD_DENIED to a
\* request of a refused method and leaves any other request as it is.
BaseSanitizePayload(p) ==
    IF p.method \in DeniedMethods THEN Extend(p, [error |-> ERRORS.METHOD_DENIED]) ELSE p

\* One entry of a batch in _sanitizeRequestPayload: the entry after the
\* pass, and who looked at it.
SanitizeBatchEntryNoTxCheck(p) ==
    [p |-> BaseSanitizePayload(p), by |-> "base"]

SanitizeBatchEntryGenericError(p) ==
    IF p.method = "eth_sendTransaction"
    THEN [p |-> Extend(p, [error |-> ERRORS.TX_DENIED]), by |-> "none"]
    ELSE [p |-> BaseSanitizePayload(p), by |-> "base"]

SanitizeBatchEntry(p) ==
    IF p.method = "eth_sendTransaction"
    THEN [p |-> Extend(p, [error |-> ERRORS.BATCH_TX_DENIED]), by |-> "none"]
    ELSE [p |-> BaseSanitizePayload(p), by |-> "base"]

\* _sanitizeRequestPayload(conn, payload) on the freshly parsed copy: the
\* entries after the pass and, per entry, the sanitizer that was given it.
SanitizeRequestPayload(raw) ==
    IF IsArray(raw)
    THEN [i \in 1..Len(raw.v) |-> SanitizeBatchEntry(raw.v[i])]
    ELSE <<[p |-> BaseSanitizePayload(raw.v), by |-> "base"]>>

\* Property names every plain object inherits; this._processors is a plain
\* object, so this._processors[name] is truthy for these too, and what it
\* yields is no processor and has no exec.
ObjectPrototype == {"constructor"}

\* The processor _sendRequest hands the sanitized payload to:
\* this._processors[finalPayload.method], else the base processor.  An array
\* has no `method`.  "inherited": the lookup yielded an inherited property.
ProcessorForAlwaysBase(raw) == "base"

ProcessorForFirstEntry(raw) ==
    LET m == IF IsArray(raw) THEN (IF Len(raw.v) > 0 THEN raw.v[1].method ELSE "undefined") ELSE raw.v.method
    IN  IF m \in Processors THEN m
        ELSE IF m \in ObjectPrototype THEN "inherited"
        ELSE "base"

ProcessorFor(raw) ==
    IF IsArray(raw) THEN "base"
    ELSE IF raw.v.method \in Processors THEN raw.v.method
    ELSE IF raw.v.method \in ObjectPrototype THEN "inherited"
    ELSE "base"

\* What exec does with one entry: an entry that carries an error is handed
\* back as it is and never reaches the node; the others are answered by the
\* node, with a result or with the node's own error.
NodeError == [code |-> -32000, message |-> <<Txt("node error")>>]

ExecEntry(p, how) ==
    IF Has(p, "error") THEN [error |-> p.error]
    ELSE IF how = "result" THEN [result |-> "r"]
    ELSE [error |-> NodeError]

\* The entries of a payload that exec sends to the node.
SentToNode(final) == {i \in 1..Len(final) : ~Has(final[i].p, "error")}

\* The errors an exec may reject with.
ExecRejections(proc) ==
    IF proc = "eth_sendTransaction" THEN {"TX_DENIED"} ELSE {"METHOD_TIMEOUT"}

\* --------------------------------------------------------------- the state
NodeStates == {"STARTING", "CONNECTED", "STOPPING", "STOPPED"}

VARIABLES
    nodeState,          \* ethereumNode.state
    connections,        \* this._connections: owner id -> socket of the entry, 0 when none
    connectionPromise,  \* this._connectionPromise: owner id -> pending promise, 0 when none
    mgr,                \* the socket manager: owner id -> socket, 0 when none
    sockets,            \* the socket objects ever made
    promises,           \* the connect promises ever made
    calls,              \* the IPC calls, each with its position in its chain
    teardowns,          \* socket.destroy() calls that have not settled
    disconnecting,      \* socket.disconnect() calls that have not settled
    writable,           \* owner id -> the last ipcProvider-setWritable it was sent
    notified            \* owner id -> the last ipcProvider-error/-timeout/-end it was sent

vars == <<nodeState, connections, connectionPromise, mgr, sockets, promises, calls, teardowns, disconnecting, writable, notified>>

\* owner.send('ipcProvider-setWritable', flag) as the owner sees it.
SetWritable(w, o, flag) == [w EXCEPT ![o] = IF flag THEN "true" ELSE "false"]

NoReply == [t |-> "none", v |-> <<>>]

IdleCall ==
    [kind |-> "idle", pc |-> "idle", owner |-> 0, isSync |-> FALSE,
     raw |-> [t |-> "bad", v |-> <<>>], payload |-> [t |-> "bad", v |-> <<>>], socket |-> 0, awaiting |-> 0, conn |-> 0,
     connAtDispatch |-> "unchecked", final |-> <<>>, execBy |-> "none", toNode |-> {},
     err |-> "none", reply |-> NoReply, via |-> "none"]

NoSocket == [st |-> "none", owner |-> 0, hooks |-> 0, timeout |-> 0]

NoPromise == [st |-> "none", owner |-> 0, socket |-> 0, connects |-> 0]

Init ==
    /\ nodeState \in {"STARTING", "CONNECTED"}
    /\ connections = [o \in Owners |-> 0]
    /\ connectionPromise = [o \in Owners |-> 0]
    /\ mgr = [o \in Owners |-> 0]
    /\ sockets = [s \in CallIds |-> NoSocket]
    /\ promises = [p \in CallIds |-> NoPromise]
    /\ calls = [c \in CallIds |-> IdleCall]
    /\ teardowns = {}
    /\ disconnecting = {}
    /\ writable = [o \in Owners |-> "none"]
    /\ notified = [o \in Owners |-> "none"]

IsConnected(s) == s # 0 /\ sockets[s].st = "connected"

\* The errors a chain can be rejected with, by name.
ErrorNamed(name) ==
    CASE name = "SyntaxError" -> SyntaxError
      [] name = "TypeError" -> TypeError
      [] name = "NotAFunction" -> NotAFunction
      [] name = "ConnectError" -> [message |-> <<Txt("Unable to connect to socket")>>]
      [] OTHER -> ERRORS[name]

\* -------------------------------------------------- delivery of a payload
\* `if (isSync) event.returnValue = ... else event.sender.send('ipcProvider-data', ...)`.
DeliveryChannelAlwaysPush(isSync) == "data"

DeliveryChannel(isSync) == IF isSync THEN "returnValue" ELSE "data"

\* The last `.then` of _sendRequest: the payload goes back as the event's
\* return value for a sync call, as an ipcProvider-data push otherwise.
Delivered(call, payload, errName) ==
    [call EXCEPT !.pc = "done", !.err = errName, !.reply = payload,
                 !.via = DeliveryChannel(call.isSync)]

\* The `.catch` of _sendRequest followed by the delivery.  When
\* _makeErrorResponsePayload itself throws (`item.method` of a null item) the
\* chain ends rejected and the delivery never runs.
Caught(call, errName) ==
    IF NullInside(call.raw)
    THEN [call EXCEPT !.pc = "unhandled", !.err = "TypeError"]
    ELSE Delivered(call, MakeErrorResponsePayload(call.payload, ErrorArg(ErrorNamed(errName))), errName)

\* ------------------------------------------------------------ _sendRequest
\* `if (!conn.socket.isConnected) throw METHOD_TIMEOUT`: whether the request
\* may go on to the sanitizer and a processor.
DispatchUnchecked(conn) == TRUE

DispatchAllowed(conn) == IsConnected(conn)

\* `if (!_.isArray(finalPayload) && finalPayload.error) throw finalPayload.error`.
ShortCircuitNever(raw, final) == FALSE

ShortCircuit(raw, final) == ~IsArray(raw) /\ Has(final[1].p, "error")

\* What the variable `payload`, which the reply is built from, holds once
\* the sanitizer has run: the sanitizer was given a parse of its own
\* (`let finalPayload = JSON.parse(originalPayloadStr)`), so `payload` is as
\* it was parsed in the Q.try body.
ReplyBasisAliased(payload, final) ==
    IF payload.t = "batch" THEN [payload EXCEPT !.v = [i \in 1..Len(final) |-> final[i].p]]
    ELSE [payload EXCEPT !.v = final[1].p]

ReplyBasis(payload, final) == payload

\* The `.then((conn) => ...)` of _sendRequest, for a call that resolved with
\* entry `conn` (0: undefined): the connected check, the sanitizer on a fresh
\* parse, the short cut for a single request with an error, the dispatch to
\* a processor.  A throw goes through the catch to the delivery.
Dispatch(call, conn) ==
    LET final == SanitizeRequestPayload(call.raw)
        proc == ProcessorFor(call.raw)
        basis == ReplyBasis(call.payload, final)
        seen == [call EXCEPT !.conn = conn,
                             !.connAtDispatch = IF conn = 0 THEN "none"
                                                ELSE IF IsConnected(conn) THEN "connected" ELSE "disconnected"]
    IN  IF conn = 0 THEN Caught(seen, "TypeError")
        ELSE IF ~DispatchAllowed(conn) THEN Caught(seen, "METHOD_TIMEOUT")
        ELSE IF NullInside(call.raw) THEN Caught(seen, "TypeError")
        ELSE IF ShortCircuit(call.raw, final)
        THEN Caught([seen EXCEPT !.final = final, !.payload = basis], "METHOD_DENIED")
        ELSE IF proc = "inherited"
        THEN Caught([seen EXCEPT !.final = final, !.payload = basis], "NotAFunction")
        ELSE [seen EXCEPT !.final = final, !.payload = basis, !.execBy = proc,
                          !.toNode = IF proc = "base" THEN SentToNode(final) ELSE {},
                          !.pc = "sr_exec"]

\* The processor's exec settles; `.then` shapes the result, `.catch` the
\* error, and the payload is delivered.
ExecSettle(c, how) ==
    LET call == calls[c]
        n == Len(call.final)
    IN  /\ call.pc = "sr_exec"
        /\ how \in {"result", "nodeError"} \cup ExecRejections(call.execBy)
        /\ calls' = [calls EXCEPT ![c] =
                        IF how \in {"result", "nodeError"}
                        THEN Delivered(call, MakeResponsePayload(call.payload, [i \in 1..n |-> ExecEntry(call.final[i].p, how)]), "none")
                        ELSE Caught(call, how)]
        /\ UNCHANGED writable
        /\ UNCHANGED <<nodeState, connections, connectionPromise, mgr, sockets, promises, teardowns, disconnecting, notified>>

\* ------------------------------------------------ _getOrCreateConnection
\* Sockets.get(ownerId, Settings.rpcMode): the manager's socket for the
\* owner, made on first use.  A socket made by call c is socket c.
SocketsGet(c, o) == IF mgr[o] # 0 THEN mgr[o] ELSE c

\* The Q.try body, run inside the IPC handler: the socket of the owner's
\* entry, or one from the manager.
GocTry(c, o, call) ==
    LET s == IF connections[o] # 0 THEN connections[o] ELSE SocketsGet(c, o)
    IN  /\ calls' = [calls EXCEPT ![c] = [call EXCEPT !.owner = o, !.socket = s, !.pc = "goc_save"]]
        /\ IF connections[o] = 0 /\ mgr[o] = 0
           THEN /\ sockets' = [sockets EXCEPT ![s] = [NoSocket EXCEPT !.st = "idle", !.owner = o]]
                /\ mgr' = [mgr EXCEPT ![o] = s]
           ELSE UNCHANGED <<sockets, mgr>>

NextSlot(c) == calls[c].kind = "idle" /\ \A d \in CallIds : d < c => calls[d].kind # "idle"

\* ipc.on('ipcProvider-create'): _getOrCreateConnection(event).
IpcCreate(c, o) ==
    /\ NextSlot(c)
    /\ GocTry(c, o, [IdleCall EXCEPT !.kind = "create"])
    /\ UNCHANGED writable
    /\ UNCHANGED <<nodeState, connections, connectionPromise, promises, teardowns, disconnecting, notified>>

\* ipc.on('ipcProvider-write' / 'ipcProvider-writeSync'): the Q.try body of
\* _sendRequest.  A string that does not parse goes straight to the catch.
IpcWrite(c, o, isSync, raw) ==
    /\ NextSlot(c)
    /\ LET call == [IdleCall EXCEPT !.kind = "write", !.owner = o, !.isSync = isSync, !.raw = raw, !.payload = raw]
       IN  IF raw.t = "bad"
           THEN /\ calls' = [calls EXCEPT ![c] = Caught(call, "SyntaxError")]
                /\ UNCHANGED writable
                /\ UNCHANGED <<sockets, mgr>>
           ELSE /\ GocTry(c, o, call)
                /\ UNCHANGED writable
    /\ UNCHANGED <<nodeState, connections, connectionPromise, promises, teardowns, disconnecting, notified>>

\* The last step of _getOrCreateConnection and what follows it in the same
\* chain: the owner is told it may write, the call resolves with
\* this._connections[ownerId], and a write goes on to its dispatch.
Resolved(call, conn) ==
    IF call.kind = "create" THEN [call EXCEPT !.conn = conn, !.pc = "done"] ELSE Dispatch(call, conn)

\* `if (!this._connectionPromise[ownerId])`: the promise the call awaits is
\* the owner's pending one, or its own new one when there is none.
PendingForIgnoringPending(c, o) == c

PendingFor(c, o) == IF connectionPromise[o] = 0 THEN c ELSE connectionPromise[o]

\* The Q.try that opens a new promise: it waits for the node's CONNECTED
\* state change unless the node is connected, and then goes on to
\* socket.connect.
FirstStepNoWait == "connecting"

FirstStep == IF nodeState # "CONNECTED" THEN "waitNode" ELSE "connecting"

ConnectTimeoutMs == 5000

\* socket.connect(Settings.rpcConnectConfig, {timeout: 5000}) on socket s.
Connecting(socks, s) ==
    [socks EXCEPT ![s].timeout = ConnectTimeoutMs, ![s].st = "connecting"]

\* `if (!this._connections[ownerId])`: the owner has no entry yet.
IsNewEntryAlways(o) == TRUE

IsNewEntryWhenDisconnected(o) == connections[o] = 0 \/ ~IsConnected(connections[o])

IsNewEntry(o) == connections[o] = 0

\* The `.then` callbacks that follow the Q.try body: the entry is saved and
\* the socket's hooks registered unless the owner has an entry; a socket
\* that is not connected is connected through the owner's pending promise,
\* made here when there is none; a connected one lets the call resolve.
\* socket.on(error / timeout / end / connect / data-notification), inside
\* the `if (!this._connections[ownerId])` block: one more set of listeners
\* on the socket when the entry is new, nothing otherwise.
RegisterHooksEveryCall(s, isNew) == [sockets EXCEPT ![s].hooks = @ + 1]

RegisterHooks(s, isNew) == IF isNew THEN [sockets EXCEPT ![s].hooks = @ + 1] ELSE sockets

GocSave(c) ==
    LET call == calls[c]
        o == call.owner
        s == call.socket
        p == PendingFor(c, o)
        isNew == IsNewEntry(o)
        conns == IF isNew THEN [connections EXCEPT ![o] = s] ELSE connections
        socks == RegisterHooks(s, isNew)
    IN  /\ call.pc = "goc_save"
        /\ connections' = conns
        /\ IF ~IsConnected(s)
           THEN /\ promises' = IF p = c
                               THEN [promises EXCEPT ![c] = [NoPromise EXCEPT !.st = FirstStep, !.owner = o, !.socket = s,
                                                                             !.connects = IF FirstStep = "connecting" THEN 1 ELSE 0]]
                               ELSE promises
                /\ sockets' = IF p = c /\ FirstStep = "connecting" THEN Connecting(socks, s) ELSE socks
                /\ connectionPromise' = [connectionPromise EXCEPT ![o] = p]
                /\ calls' = [calls EXCEPT ![c].pc = "goc_wait", ![c].awaiting = p]
                /\ UNCHANGED writable
           ELSE /\ calls' = [calls EXCEPT ![c] = Resolved(call, conns[o])]
                /\ writable' = SetWritable(writable, o, TRUE)
                /\ sockets' = socks
                /\ UNCHANGED <<promises, connectionPromise>>
        /\ UNCHANGED <<nodeState, mgr, teardowns, disconnecting, notified>>

\* The promise's `.then` once the node's CONNECTED change has released it:
\* socket.connect(Settings.rpcConnectConfig, {timeout: 5000}).
PromiseConnect(p) ==
    /\ promises[p].st = "ready"
    /\ promises' = [promises EXCEPT ![p].st = "connecting", ![p].connects = @ + 1]
    /\ sockets' = Connecting(sockets, promises[p].socket)
    /\ UNCHANGED writable
    /\ UNCHANGED <<nodeState, connections, connectionPromise, mgr, calls, teardowns, disconnecting, notified>>

\* The promise's `.finally`: the owner's pending entry is deleted.
FinallyKeepOnFailure(o, ok) ==
    [connectionPromise EXCEPT ![o] = IF ok THEN 0 ELSE @]

Finally(o, ok) ==
    [connectionPromise EXCEPT ![o] = 0]

\* socket.connect settles: connected (the 'connect' hook pushes
\* ipcProvider-connect to the owner), or failed (an error, or the timeout).
\* Then the `.finally`.
SocketConnectSettle(p, ok) ==
    LET s == promises[p].socket
        o == promises[p].owner
    IN  /\ promises[p].st = "connecting"
        /\ sockets' = [sockets EXCEPT ![s].st = IF ok THEN "connected" ELSE IF @ = "connecting" THEN "idle" ELSE @]
        /\ promises' = [promises EXCEPT ![p].st = IF ok THEN "resolved" ELSE "rejected"]
        /\ connectionPromise' = Finally(o, ok)
        /\ UNCHANGED writable
        /\ UNCHANGED <<nodeState, connections, mgr, calls, teardowns, disconnecting, notified>>

\* The last `.then` of _getOrCreateConnection sends setWritable(true); a
\* rejected chain skips it.
TellsWritableAlways(o, resolved) == SetWritable(writable, o, TRUE)

TellsWritable(o, resolved) == IF resolved THEN SetWritable(writable, o, TRUE) ELSE writable

\* A call that awaited the promise goes on when it has settled: it resolves,
\* or it is rejected with the promise's failure.
GocResume(c) ==
    LET call == calls[c]
        conn == connections[call.owner]
    IN  /\ call.pc = "goc_wait"
        /\ promises[call.awaiting].st \in {"resolved", "rejected"}
        /\ writable' = TellsWritable(call.owner, promises[call.awaiting].st = "resolved")
        /\ IF promises[call.awaiting].st = "resolved"
           THEN calls' = [calls EXCEPT ![c] = Resolved(call, conn)]
           ELSE IF call.kind = "create"
           THEN calls' = [calls EXCEPT ![c].pc = "done", ![c].err = "ConnectError"]
           ELSE calls' = [calls EXCEPT ![c] = Caught(call, "ConnectError")]
        /\ UNCHANGED <<nodeState, connections, connectionPromise, mgr, sockets, promises, teardowns, disconnecting, notified>>

\* ------------------------------------------------------ node state changes
\* The sockets _onNodeStateChanged disconnects: on STOPPING, the socket of
\* every entry whose socket is connected.
ToDisconnectFirstOnly(state) ==
    IF state = "STOPPING"
    THEN LET all == {connections[o] : o \in {x \in Owners : IsConnected(connections[x])}}
         IN  IF all = {} THEN {} ELSE {CHOOSE s \in all : \A r \in all : s <= r}
    ELSE {}

ToDisconnectOnAnyChange(state) ==
    {connections[o] : o \in {x \in Owners : IsConnected(connections[x])}}

ToDisconnect(state) ==
    IF state = "STOPPING"
    THEN {connections[o] : o \in {x \in Owners : IsConnected(connections[x])}}
    ELSE {}

\* ethereumNode emits 'state': _onNodeStateChanged runs, and the promises
\* that wait for the node go on when the new state is CONNECTED.
NodeStateChanged(state) ==
    /\ state # nodeState
    /\ nodeState' = state
    /\ disconnecting' = disconnecting \cup ToDisconnect(state)
    /\ promises' = [p \in CallIds |->
                      IF promises[p].st = "waitNode" /\ state = "CONNECTED"
                      THEN [promises[p] EXCEPT !.st = "ready"]
                      ELSE promises[p]]
    /\ UNCHANGED writable
    /\ UNCHANGED <<connections, connectionPromise, mgr, sockets, calls, teardowns, notified>>

\* What a settled disconnect sends: setWritable(false) to the entry's owner
\* when it succeeded.
DisconnectTellsNobody(s, ok) == writable

DisconnectTellsEveryone(s, ok) ==
    IF ok THEN [u \in Owners |-> "false"] ELSE writable

DisconnectTells(s, ok) ==
    IF ok THEN SetWritable(writable, sockets[s].owner, FALSE) ELSE writable

\* socket.disconnect() of the STOPPING handler settles.
DisconnectSettle(s, ok) ==
    /\ s \in disconnecting
    /\ disconnecting' = disconnecting \ {s}
    /\ sockets' = [sockets EXCEPT ![s].st = IF ok /\ @ = "connected" THEN "idle" ELSE @]
    /\ writable' = DisconnectTells(s, ok)
    /\ UNCHANGED <<nodeState, connections, connectionPromise, mgr, promises, calls, teardowns, notified>>

\* -------------------------------------------------------------- teardown
\* `if (this._connections[ownerId])` of _destroyConnection.
HasEntryAlways(conns, o) == TRUE

HasEntry(conns, o) == conns[o] # 0

\* What _destroyConnection reads and writes in its own step.
DestroyState ==
    [connections |-> connections, connectionPromise |-> connectionPromise,
     teardowns |-> teardowns, writable |-> writable]

\* The Q.try body of _destroyConnection on state st: with an entry, the
\* owner is sent setWritable(false) and socket.destroy() is called; with
\* none, nothing.
DestroyConnection(st, o) ==
    IF HasEntry(st.connections, o)
    THEN [st EXCEPT !.writable = SetWritable(@, o, FALSE),
                    !.teardowns = @ \cup {[s |-> st.connections[o], ev |-> "destroy"]}]
    ELSE st

\* ipc.on('ipcProvider-destroy'): _destroyConnection(event).
IpcDestroy(o) ==
    LET after == DestroyConnection(DestroyState, o)
    IN  /\ connections' = after.connections
        /\ connectionPromise' = after.connectionPromise
        /\ teardowns' = after.teardowns
        /\ writable' = after.writable
        /\ UNCHANGED <<nodeState, mgr, sockets, promises, calls, disconnecting, notified>>

SocketEvents == {"error", "timeout", "end"}

\* The socket emits error, timeout or end: the hook destroys the socket.
SocketEvent(s, ev) ==
    /\ sockets[s].hooks > 0
    /\ sockets[s].st \in {"connecting", "connected"}
    /\ \A t \in teardowns : t.s # s
    /\ teardowns' = teardowns \cup {[s |-> s, ev |-> ev]}
    /\ UNCHANGED writable
    /\ UNCHANGED <<nodeState, connections, connectionPromise, mgr, sockets, promises, calls, disconnecting, notified>>

\* The `.finally` of socket.destroy(): `delete this._connections[ownerId]`,
\* whether the destroy succeeded or not.
EntryDeletedOnlyOnSuccess(o, ok) ==
    IF ok THEN [connections EXCEPT ![o] = 0] ELSE connections

EntryDeleted(o, ok) ==
    [connections EXCEPT ![o] = 0]

\* owner.send(`ipcProvider-${ev}`, ...) of the socket hook, after the entry
\* was deleted; _destroyConnection sends nothing at this point.
TeardownNotifiesAll(t, o) ==
    IF t.ev = "destroy" THEN notified ELSE [u \in Owners |-> t.ev]

TeardownNotifies(t, o) ==
    IF t.ev = "destroy" THEN notified ELSE [notified EXCEPT ![o] = t.ev]

\* socket.destroy() settles; its `.finally` deletes the owner's entry and,
\* for a socket event, pushes ipcProvider-<event> to the owner.
TeardownSettle(t, ok) ==
    LET o == sockets[t.s].owner
    IN  /\ t \in teardowns
        /\ teardowns' = teardowns \ {t}
        /\ sockets' = [sockets EXCEPT ![t.s].st = IF ok THEN "destroyed" ELSE @]
        /\ mgr' = [mgr EXCEPT ![o] = IF ok /\ @ = t.s THEN 0 ELSE @]
        /\ connections' = EntryDeleted(o, ok)
        /\ notified' = TeardownNotifies(t, o)
        /\ UNCHANGED writable
        /\ UNCHANGED <<nodeState, connectionPromise, promises, calls, disconnecting>>

\* ------------------------------------------------------------------- Next
\* Spec interleaves the calls of several owners; its writes are async
\* writes of one request, its socket events are `end`.  RouterSpec below
\* runs one call through every request string, mode and socket event.
OnePayload == {[t |-> "single", v |-> [method |-> "eth_call", params |-> "p", id |-> 7]]}

\* Owners are interchangeable: they make their first call in order.
InOrder(o) == \A x \in Owners : x < o => \E c \in CallIds : calls[c].kind # "idle" /\ calls[c].owner = x

\* A caller that sends ipcProvider-destroy only when no destroy of its
\* entry's socket is in flight.
AfterTeardown(o) == \A t \in teardowns : t.s # connections[o]

Next ==
    \/ \E c \in CallIds, o \in Owners : InOrder(o) /\ IpcCreate(c, o)
    \/ \E c \in CallIds, o \in Owners, raw \in OnePayload : InOrder(o) /\ IpcWrite(c, o, FALSE, raw)
    \/ \E c \in CallIds : GocSave(c)
    \/ \E p \in CallIds : PromiseConnect(p)
    \/ \E p \in CallIds, ok \in BOOLEAN : SocketConnectSettle(p, ok)
    \/ \E c \in CallIds : GocResume(c)
    \/ \E c \in CallIds, how \in {"result", "METHOD_TIMEOUT"} : ExecSettle(c, how)
    \/ \E state \in NodeStates : NodeStateChanged(state)
    \/ \E s \in CallIds, ok \in BOOLEAN : DisconnectSettle(s, ok)
    \/ \E o \in Owners : AfterTeardown(o) /\ IpcDestroy(o)
    \/ \E s \in CallIds : SocketEvent(s, "end")
    \/ \E t \in teardowns, ok \in BOOLEAN : TeardownSettle(t, ok)

Spec == Init /\ [][Next]_vars

\* One caller, one call, every request string: the router on its own.
RouterNext ==
    \/ \E raw \in RawPayloads, isSync \in BOOLEAN : IpcWrite(1, 1, isSync, raw)
    \/ GocSave(1)
    \/ PromiseConnect(1)
    \/ \E ok \in BOOLEAN : SocketConnectSettle(1, ok)
    \/ GocResume(1)
    \/ \E how \in {"result", "nodeError", "TX_DENIED", "METHOD_TIMEOUT"} : ExecSettle(1, how)
    \/ \E state \in NodeStates : NodeStateChanged(state)
    \/ \E ok \in BOOLEAN : DisconnectSettle(1, ok)
    \/ AfterTeardown(1) /\ IpcDestroy(1)
    \/ \E ev \in SocketEvents : SocketEvent(1, ev)
    \/ \E t \in teardowns, ok \in BOOLEAN : TeardownSettle(t, ok)

RouterSpec == Init /\ [][RouterNext]_vars

\* Teardowns that overlap: create calls only, and an ipcProvider-destroy may
\* arrive while the destroy started by a socket event is still in flight.
RaceNext ==
    \/ \E c \in CallIds, o \in Owners : InOrder(o) /\ IpcCreate(c, o)
    \/ \E c \in CallIds : GocSave(c)
    \/ \E p \in CallIds : PromiseConnect(p)
    \/ \E p \in CallIds, ok \in BOOLEAN : SocketConnectSettle(p, ok)
    \/ \E c \in CallIds : GocResume(c)
    \/ NodeStateChanged("CONNECTED")
    \/ \E o \in Owners : IpcDestroy(o)
    \/ \E s \in CallIds : SocketEvent(s, "end")
    \/ \E t \in teardowns, ok \in BOOLEAN : TeardownSettle(t, ok)

RaceSpec == Init /\ [][RaceNext]_vars

\* ================================================================= claims
Unsettled == {"waitNode", "ready", "connecting"}

IsWrite(c) == calls[c].kind = "write"

HasTx(raw) == IsArray(raw) /\ ~NullInside(raw) /\ \E i \in 1..Len(raw.v) : raw.v[i].method = "eth_sendTransaction"

\* C1: calls of one owner that overlap a connection attempt share it: an
\* owner has at most one unsettled connect promise, a call that waits on an
\* unsettled promise waits on the owner's pending one, socket.connect is
\* invoked exactly once per promise (not at all while it waits for the
\* node), and every call that awaited a promise ends with that promise's
\* outcome.
C1_SharedPendingConnect ==
    /\ \A o \in Owners :
          Cardinality({p \in CallIds : promises[p].owner = o /\ promises[p].st \in Unsettled}) <= 1
    /\ \A c \in CallIds : calls[c].pc = "goc_wait" =>
          /\ promises[calls[c].awaiting].owner = calls[c].owner
          /\ promises[calls[c].awaiting].st \in Unsettled =>
                connectionPromise[calls[c].owner] = calls[c].awaiting
    /\ \A p \in CallIds : promises[p].st # "none" =>
          promises[p].connects = IF promises[p].st \in {"waitNode", "ready"} THEN 0 ELSE 1
    /\ \A c \in CallIds : calls[c].awaiting # 0 /\ calls[c].pc # "goc_wait" =>
          ((calls[c].err = "ConnectError") <=> (promises[calls[c].awaiting].st = "rejected"))

\* Two calls awaited the same promise, whose one connect has settled, and
\* both have ended.
C1_Witness ==
    \E c \in CallIds, d \in CallIds :
        /\ c # d
        /\ calls[c].awaiting # 0
        /\ calls[c].awaiting = calls[d].awaiting
        /\ calls[c].pc = "done" /\ calls[d].pc = "done"
        /\ promises[calls[c].awaiting].connects = 1

\* C2: no _sendRequest chain ends without having delivered a payload to its
\* caller.
C2_EveryRequestAnswered ==
    \A c \in CallIds : IsWrite(c) => calls[c].pc # "unhandled"

\* C3: a request string that is no JSON is answered with the invalid-payload
\* error, code -32600 and message 'Payload invalid.', and touches no socket.
C3_InvalidPayloadError ==
    \A c \in CallIds : IsWrite(c) /\ calls[c].raw.t = "bad" /\ calls[c].pc = "done" =>
        LET e == calls[c].reply.v[1]
        IN  /\ calls[c].socket = 0
            /\ Has(e, "code") /\ e.code = ERRORS.INVALID_PAYLOAD.code
            /\ Has(e, "error") /\ e.error.message = ERRORS.INVALID_PAYLOAD.message

\* C4: a delivered payload has the request's shape (one object, or an array
\* of the request's length) and each entry carries jsonrpc "2.0", the id of
\* its request entry, and exactly one of result and error.
C4_ReplyShape ==
    \A c \in CallIds : IsWrite(c) /\ calls[c].pc = "done" =>
        LET r == calls[c].reply
            items == PayloadItems(calls[c].raw)
        IN  /\ r.t = IF IsArray(calls[c].raw) THEN "batch" ELSE "single"
            /\ Len(r.v) = Len(items)
            /\ \A i \in 1..Len(items) :
                  /\ Has(r.v[i], "jsonrpc") /\ r.v[i].jsonrpc = "2.0"
                  /\ Has(items[i], "id") => Has(r.v[i], "id") /\ r.v[i].id = items[i].id
                  /\ ~Has(items[i], "id") => ~Has(r.v[i], "id")
                  /\ Has(r.v[i], "result") # Has(r.v[i], "error")

\* A delivered batch reply of two entries, one an error and one a result.
C4_Witness ==
    \E c \in CallIds :
        /\ IsWrite(c) /\ calls[c].pc = "done" /\ calls[c].reply.t = "batch"
        /\ Len(calls[c].reply.v) = 2
        /\ Has(calls[c].reply.v[1], "error") /\ Has(calls[c].reply.v[2], "result")

\* C5: a request whose connection's socket is not connected when the request
\* is about to be dispatched fails with METHOD_TIMEOUT (code -32603) and
\* reaches neither the sanitizer nor a processor; a processor is only ever
\* handed a request over a socket that was connected at that moment.
C5_NoDispatchOverDeadSocket ==
    \A c \in CallIds : IsWrite(c) =>
        /\ calls[c].connAtDispatch = "disconnected" =>
              /\ calls[c].pc = "done" /\ calls[c].err = "METHOD_TIMEOUT"
              /\ Has(calls[c].reply.v[1], "code") /\ calls[c].reply.v[1].code = -32603
              /\ calls[c].final = <<>> /\ calls[c].execBy = "none" /\ calls[c].toNode = {}
        /\ calls[c].execBy # "none" \/ calls[c].final # <<>> => calls[c].connAtDispatch = "connected"

\* A write resolved with an entry whose socket is not the one the awaited
\* promise connected, and that socket was not connected.
C5_Witness ==
    \E c \in CallIds :
        /\ IsWrite(c) /\ calls[c].connAtDispatch = "disconnected" /\ calls[c].pc = "done"
        /\ calls[c].awaiting # 0
        /\ calls[c].conn # promises[calls[c].awaiting].socket

\* C6: a promise opened while the node is not CONNECTED waits: no connect is
\* invoked and no awaiting call goes on while it waits; it leaves the wait
\* only in a step that changes the node state to CONNECTED, however long
\* that takes; then socket.connect is invoked once, with the 5000 ms timeout.
C6_WaitsForNode ==
    /\ [](\A p \in CallIds : promises[p].st \in {"waitNode", "ready"} =>
            /\ promises[p].connects = 0
            /\ \A c \in CallIds : calls[c].awaiting = p => calls[c].pc = "goc_wait")
    /\ [][\A p \in CallIds :
            /\ (promises[p].st = "none" /\ promises'[p].st # "none" /\ nodeState # "CONNECTED")
                  => promises'[p].st = "waitNode"
            /\ (promises[p].st = "waitNode" /\ promises'[p].st # "waitNode")
                  => (nodeState # "CONNECTED" /\ nodeState' = "CONNECTED" /\ promises'[p].st = "ready")
            /\ (promises[p].st = "ready" /\ promises'[p].st # "ready")
                  => /\ promises'[p].st = "connecting"
                     /\ promises'[p].connects = 1
                     /\ sockets'[promises[p].socket].st = "connecting"
                     /\ sockets'[promises[p].socket].timeout = ConnectTimeoutMs
            /\ promises'[p].connects <= 1]_vars

\* A promise that waited for the node has been released by the CONNECTED
\* change while a call awaits it.
C6_Witness ==
    \E p \in CallIds :
        /\ promises[p].st = "ready" /\ nodeState = "CONNECTED"
        /\ \E c \in CallIds : calls[c].pc = "goc_wait" /\ calls[c].awaiting = p

\* C7: an owner has a pending entry only while its promise is unsettled
\* (the entry goes when the connect fails and when it succeeds); a call that
\* awaited a failed connect is rejected with the failure; and a call never
\* starts to wait on a settled promise, so a later call starts a new attempt.
C7_PendingEntryCleared ==
    /\ [](\A o \in Owners : connectionPromise[o] # 0 =>
            /\ promises[connectionPromise[o]].st \in Unsettled
            /\ promises[connectionPromise[o]].owner = o)
    /\ [][\A c \in CallIds :
            /\ (calls[c].pc # "goc_wait" /\ calls'[c].pc = "goc_wait")
                  => promises'[calls'[c].awaiting].st \in Unsettled
            /\ (calls[c].pc = "goc_wait" /\ calls'[c].pc # "goc_wait" /\ promises[calls[c].awaiting].st = "rejected")
                  => /\ calls'[c].err = "ConnectError"
                     /\ calls'[c].pc = "done"
                     /\ writable' = writable]_vars

\* A call was rejected by a failed connect and a later promise of the same
\* owner exists.
C7_Witness ==
    \E p \in CallIds, q \in CallIds, c \in CallIds :
        /\ p # q
        /\ promises[p].st = "rejected" /\ promises[q].st # "none"
        /\ promises[p].owner = promises[q].owner
        /\ connectionPromise[promises[p].owner] = q
        /\ calls[c].awaiting = p /\ calls[c].err = "ConnectError"

\* C8: the step that changes the node state to STOPPING calls disconnect on
\* the socket of every entry whose socket is connected; a disconnect that
\* succeeds tells its owner setWritable(false); a disconnect that settles,
\* failed or not, leaves the other disconnects in flight.
C8_StoppingDisconnectsAll ==
    /\ [][(nodeState # "STOPPING" /\ nodeState' = "STOPPING") =>
            \A o \in Owners : IsConnected(connections[o]) => connections[o] \in disconnecting']_vars
    /\ [][\A s \in CallIds :
            (s \in disconnecting /\ s \notin disconnecting') =>
                /\ (sockets[s].st = "connected" /\ sockets'[s].st # "connected")
                      => writable'[sockets[s].owner] = "false"
                /\ \A r \in CallIds : r # s /\ r \in disconnecting => r \in disconnecting']_vars

\* During STOPPING one owner's socket is still connected after its
\* disconnect settled, the other's is disconnected and its owner was told.
C8_Witness ==
    \E o \in Owners, u \in Owners :
        /\ o # u /\ nodeState = "STOPPING" /\ disconnecting = {}
        /\ connections[o] # 0 /\ connections[u] # 0
        /\ sockets[connections[o]].st = "connected" /\ writable[o] = "true"
        /\ sockets[connections[u]].st = "idle" /\ writable[u] = "false"

\* C9: in a batch that holds an eth_sendTransaction entry, that entry gets
\* the batch-transaction-denied error and is not given to the base
\* sanitizer, every other entry is given to the base sanitizer, and the
\* batch goes on to the base processor's exec.
C9_BatchTxEntryDenied ==
    \A c \in CallIds : IsWrite(c) /\ HasTx(calls[c].raw) /\ calls[c].connAtDispatch = "connected" =>
        /\ Len(calls[c].final) = Len(calls[c].raw.v)
        /\ \A i \in 1..Len(calls[c].raw.v) :
              IF calls[c].raw.v[i].method = "eth_sendTransaction"
              THEN /\ calls[c].final[i].by = "none"
                   /\ Has(calls[c].final[i].p, "error")
                   /\ calls[c].final[i].p.error = ERRORS.BATCH_TX_DENIED
                   /\ ERRORS.BATCH_TX_DENIED.code = -32603
              ELSE /\ calls[c].final[i].by = "base"
                   /\ Has(calls[c].final[i].p, "error") => calls[c].final[i].p.error # ERRORS.BATCH_TX_DENIED
        /\ calls[c].execBy = "base"
        /\ calls[c].pc \in {"sr_exec", "done"}

\* A batch of an eth_sendTransaction entry and a plain one is with the base
\* processor.
C9_Witness ==
    \E c \in CallIds :
        /\ IsWrite(c) /\ HasTx(calls[c].raw) /\ calls[c].pc = "sr_exec"
        /\ \E i \in 1..Len(calls[c].raw.v) : calls[c].raw.v[i].method = "eth_call"

\* C10 as stated: a batch that holds an eth_sendTransaction entry is never
\* handed to a processor's exec and nothing of it reaches the node.
C10_BatchRejectedWhole ==
    \A c \in CallIds : IsWrite(c) /\ HasTx(calls[c].raw) =>
        calls[c].execBy = "none" /\ calls[c].toNode = {}

\* C10 amended: a batch that holds an eth_sendTransaction entry is handed to
\* the base processor's exec as a whole, every entry in its place, and each
\* eth_sendTransaction entry carries the batch-specific error when it is
\* handed over.
C10_TxEntriesMarkedAtExec ==
    \A c \in CallIds : IsWrite(c) /\ HasTx(calls[c].raw) /\ calls[c].execBy # "none" =>
        /\ calls[c].execBy = "base"
        /\ Len(calls[c].final) = Len(calls[c].raw.v)
        /\ \A i \in 1..Len(calls[c].raw.v) :
              /\ calls[c].final[i].p.method = calls[c].raw.v[i].method
              /\ calls[c].final[i].p.id = calls[c].raw.v[i].id
              /\ calls[c].raw.v[i].method = "eth_sendTransaction" =>
                    /\ Has(calls[c].final[i].p, "error")
                    /\ calls[c].final[i].p.error.message = ERRORS.BATCH_TX_DENIED.message

\* A batch that holds an eth_sendTransaction entry went through exec and its
\* reply was delivered.
C10_Witness ==
    \E c \in CallIds :
        /\ IsWrite(c) /\ HasTx(calls[c].raw) /\ calls[c].execBy = "base"
        /\ calls[c].pc = "done" /\ calls[c].err = "none"

IsSingle(c) == IsWrite(c) /\ calls[c].raw.t = "single"

\* C11: a single request to which the sanitizer attached an error is handed
\* to no processor and nothing of it goes to the node; its caller gets one
\* error entry with that error's code, that error's message (the method
\* name put in the quoted placeholder) and the request's id.
C11_SanitizerErrorShortCircuits ==
    \A c \in CallIds :
        (IsSingle(c) /\ calls[c].final # <<>> /\ Has(calls[c].final[1].p, "error")) =>
            LET e == calls[c].reply.v[1]
                err == calls[c].final[1].p.error
            IN  /\ calls[c].execBy = "none" /\ calls[c].toNode = {}
                /\ calls[c].pc = "done" /\ calls[c].reply.t = "single"
                /\ Has(e, "code") /\ e.code = err.code
                /\ Has(e, "error") /\ e.error.message = ReplacePlaceholder(err.message, calls[c].raw.v.method)
                /\ Has(e, "id") /\ e.id = calls[c].raw.v.id
                /\ ~Has(e, "result")

\* A single request of a refused method was answered, its id being 0.
C11_Witness ==
    \E c \in CallIds :
        /\ IsSingle(c) /\ calls[c].pc = "done" /\ calls[c].err = "METHOD_DENIED"
        /\ calls[c].raw.v.method = "eth_foo" /\ calls[c].raw.v.id = 0
        /\ calls[c].connAtDispatch = "connected"

\* C12: a single request that passed the sanitizer is handed to exactly one
\* processor: the one registered under its method name, the base processor
\* when there is none.
C12_ExactlyOneProcessor ==
    \A c \in CallIds :
        (IsSingle(c) /\ calls[c].final # <<>> /\ ~Has(calls[c].final[1].p, "error")) =>
            calls[c].execBy = IF calls[c].raw.v.method \in Processors
                              THEN calls[c].raw.v.method
                              ELSE "base"

\* C13: a single request that succeeded is answered with exactly jsonrpc
\* "2.0", the request's id and the processor's result, and with no params
\* and no method field, whatever the id.
C13_SuccessResponseShape ==
    \A c \in CallIds :
        (IsSingle(c) /\ calls[c].pc = "done" /\ calls[c].err = "none" /\ Has(calls[c].reply.v[1], "result")) =>
            LET e == calls[c].reply.v[1]
            IN  /\ DOMAIN e = {"jsonrpc", "id", "result"}
                /\ e.jsonrpc = "2.0"
                /\ e.id = calls[c].raw.v.id
                /\ e.result = ExecEntry(calls[c].final[1].p, "result").result

\* C14: the payload of a request that failed has the request's shape: one
\* object for a single request, for a batch one entry per request entry, in
\* order, with that entry's id; every entry is an error entry of the same
\* error (same code, same message but for the entry's own method name in the
\* placeholder) and has neither params nor method.
C14_ErrorPayloadMirrorsRequest ==
    \A c \in CallIds :
        (IsWrite(c) /\ calls[c].pc = "done" /\ calls[c].err # "none") =>
            LET r == calls[c].reply
                items == PayloadItems(calls[c].raw)
                error == ErrorNamed(calls[c].err)
            IN  /\ r.t = IF IsArray(calls[c].raw) THEN "batch" ELSE "single"
                /\ Len(r.v) = Len(items)
                /\ \A i \in 1..Len(items) :
                      /\ ~Has(r.v[i], "params") /\ ~Has(r.v[i], "method")
                      /\ Has(items[i], "id") => Has(r.v[i], "id") /\ r.v[i].id = items[i].id
                      /\ Has(r.v[i], "error") /\ ~Has(r.v[i], "result")
                      /\ r.v[i].error.message = ReplacePlaceholder(error.message, MethodText(items[i]))
                      /\ Has(r.v[i], "code") <=> Has(error, "code")
                      /\ Has(r.v[i], "code") => r.v[i].code = error.code

\* A batch of two entries failed as a whole and was answered.
C14_Witness ==
    \E c \in CallIds :
        /\ IsWrite(c) /\ calls[c].pc = "done" /\ calls[c].err = "METHOD_TIMEOUT"
        /\ calls[c].reply.t = "batch" /\ Len(calls[c].reply.v) = 2
        /\ calls[c].raw.v[1].method # calls[c].raw.v[2].method

\* C15: every error delivered to a caller has an error object made of a
\* code and a message, and the code is the well-known one when the cause is
\* a well-known error: -32600 invalid payload, -32601 method denied, -32603
\* method timeout, transaction denied, batch transaction denied.
C15_ErrorObjectShape ==
    \A c \in CallIds :
        (IsWrite(c) /\ calls[c].pc = "done") =>
            \A i \in 1..Len(calls[c].reply.v) :
                Has(calls[c].reply.v[i], "error") =>
                    LET error == calls[c].reply.v[i].error
                    IN  /\ DOMAIN error = {"code", "message"}
                        /\ calls[c].err = "SyntaxError" => error.code = -32600
                        /\ calls[c].err = "METHOD_DENIED" => error.code = -32601
                        /\ calls[c].err \in {"METHOD_TIMEOUT", "TX_DENIED"} => error.code = -32603

\* C16: _destroyConnection for an owner that has an entry tells the owner
\* setWritable(false) in the step that calls socket.destroy(), the socket
\* being untouched and the entry still there in that step; when the destroy
\* settles, whether it succeeded or not, the owner has no entry.
C16_DestroyTellsThenRemoves ==
    /\ [][\A t \in teardowns' \ teardowns : t.ev = "destroy" =>
            LET o == sockets[t.s].owner
            IN  /\ connections[o] = t.s
                /\ writable'[o] = "false"
                /\ sockets' = sockets
                /\ connections' = connections]_vars
    /\ [][\A t \in teardowns \ teardowns' : t.ev = "destroy" =>
            /\ connections'[sockets[t.s].owner] = 0
            /\ sockets'[t.s].st \in {"destroyed", sockets[t.s].st}
            /\ notified' = notified]_vars

\* An owner asked for the destroy of a connected socket, the destroy failed
\* and has settled: the entry is gone, the socket is still with the manager.
C16_Witness ==
    \E o \in Owners :
        /\ connections[o] = 0 /\ writable[o] = "false" /\ notified[o] = "none"
        /\ teardowns = {}
        /\ mgr[o] # 0 /\ sockets[mgr[o]].st = "connected"

C18_SocketEventTearsDownOnlyItsOwner ==
    /\ [][\A t \in teardowns' \ teardowns : t.ev \in SocketEvents =>
            /\ sockets[t.s].hooks > 0
            /\ connections' = connections /\ sockets' = sockets
            /\ connectionPromise' = connectionPromise /\ promises' = promises
            /\ writable' = writable /\ notified' = notified]_vars
    /\ [][\A t \in teardowns \ teardowns' : t.ev \in SocketEvents =>
            LET o == sockets[t.s].owner
            IN  /\ connections'[o] = 0
                /\ notified'[o] = t.ev
                /\ sockets'[t.s].st \in {"destroyed", sockets[t.s].st}
                /\ \A u \in Owners \ {o} : connections'[u] = connections[u] /\ notified'[u] = notified[u]
                /\ \A r \in CallIds \ {t.s} : sockets'[r] = sockets[r]
                /\ connectionPromise' = connectionPromise /\ promises' = promises
                /\ writable' = writable]_vars

\* One owner lost its entry to an event on its socket and was told, while
\* the other owner's entry and connected socket are in place and it was
\* told nothing.
C18_Witness ==
    \E o \in Owners, u \in Owners :
        /\ o # u
        /\ connections[o] = 0 /\ notified[o] \in SocketEvents
        /\ connections[u] # 0 /\ sockets[connections[u]].st = "connected"
        /\ notified[u] = "none" /\ writable[u] = "true"

\* C19: an owner's entry, when it has one, holds one socket made for that
\* owner with its hooks registered, and no socket is in two owners' entries;
\* a call that goes through the save step of _getOrCreateConnection leaves
\* its owner with an entry: the one it had, untouched, or a new one with the
\* call's socket and newly registered hooks; other owners' entries stay.
C19_OneEntryPerOwner ==
    /\ [](\A o \in Owners : connections[o] # 0 =>
            /\ sockets[connections[o]].owner = o
            /\ sockets[connections[o]].hooks >= 1
            /\ \A u \in Owners \ {o} : connections[u] # connections[o])
    /\ [][\A c \in CallIds : (calls[c].pc = "goc_save" /\ calls'[c].pc # "goc_save") =>
            LET o == calls[c].owner
            IN  /\ connections'[o] # 0
                /\ connections[o] # 0 =>
                      /\ connections'[o] = connections[o]
                      /\ sockets'[connections[o]].hooks = sockets[connections[o]].hooks
                /\ connections[o] = 0 =>
                      /\ connections'[o] = calls[c].socket
                      /\ sockets'[calls[c].socket].hooks = sockets[calls[c].socket].hooks + 1
                /\ \A u \in Owners \ {o} : connections'[u] = connections[u]]_vars

\* Two calls of one owner went through the save step and the owner has the
\* one entry the first of them made, its hooks registered once.
C19_Witness ==
    \E c \in CallIds, d \in CallIds :
        /\ c # d /\ calls[c].owner = calls[d].owner /\ calls[c].owner # 0
        /\ calls[c].pc \in {"goc_wait", "sr_exec", "done"} /\ calls[c].socket # 0
        /\ calls[d].pc \in {"goc_wait", "sr_exec", "done"} /\ calls[d].socket # 0
        /\ connections[calls[c].owner] = calls[c].socket
        /\ calls[d].socket = calls[c].socket
        /\ sockets[calls[c].socket].hooks = 1

\* C20: a completed _sendRequest has delivered its payload through one
\* channel, the event's return value for a sync write and an ipcProvider-data
\* push for an async one; before completion nothing is delivered, and after
\* it nothing more.
C20_DeliveredOnceThroughOneChannel ==
    /\ [](\A c \in CallIds : IsWrite(c) =>
            /\ calls[c].pc = "done" =>
                  /\ calls[c].reply # NoReply
                  /\ calls[c].via = IF calls[c].isSync THEN "returnValue" ELSE "data"
            /\ calls[c].pc # "done" => calls[c].reply = NoReply /\ calls[c].via = "none")
    /\ [][\A c \in CallIds : calls[c].pc = "done" => calls'[c] = calls[c]]_vars

\* A sync write of a batch was answered through the event's return value.
C20_Witness ==
    \E c \in CallIds :
        /\ IsWrite(c) /\ calls[c].isSync /\ calls[c].pc = "done"
        /\ calls[c].via = "returnValue" /\ calls[c].reply.t = "batch"
        /\ calls[c].err = "none"

\* A step changes something that the backend holds for owner o or has sent
\* to o: its entry, pending connect or socket, its messages, one of its
\* sockets, promises or calls, an operation in flight on one of its sockets.
Changed(o) ==
    \/ connections'[o] # connections[o]
    \/ connectionPromise'[o] # connectionPromise[o]
    \/ mgr'[o] # mgr[o]
    \/ writable'[o] # writable[o]
    \/ notified'[o] # notified[o]
    \/ \E s \in CallIds : sockets'[s] # sockets[s] /\ (sockets[s].owner = o \/ sockets'[s].owner = o)
    \/ \E p \in CallIds : promises'[p] # promises[p] /\ (promises[p].owner = o \/ promises'[p].owner = o)
    \/ \E c \in CallIds : calls'[c] # calls[c] /\ (calls[c].owner = o \/ calls'[c].owner = o)
    \/ \E t \in (teardowns' \ teardowns) \cup (teardowns \ teardowns') : sockets[t.s].owner = o
    \/ \E s \in (disconnecting' \ disconnecting) \cup (disconnecting \ disconnecting') : sockets[s].owner = o

\* C21: a step that is not a change of the node state (a request of an
\* owner, a step of one of its calls, an event or a settling operation on its
\* socket) changes what the backend holds for and has sent to one owner at
\* most: replies, setWritable and event pushes go to that owner alone, and
\* no other owner's connection, calls or messages change with it.
C21_StepsTouchOneOwner ==
    [][nodeState' = nodeState =>
          \A o \in Owners, u \in Owners : o < u => ~(Changed(o) /\ Changed(u))]_vars

\* Both owners were sent messages, and not the same ones.
C21_Witness ==
    \E o \in Owners, u \in Owners :
        /\ writable[o] = "true" /\ notified[o] = "end"
        /\ writable[u] = "false" /\ notified[u] = "none"
        /\ \E c \in CallIds : calls[c].owner = u /\ calls[c].pc = "done" /\ calls[c].err = "none"

\* C22: a step in which a call of _getOrCreateConnection resolves sends its
\* owner setWritable(true), and the call saw its socket connected or awaited
\* a connect of the owner that succeeded; a step in which a call is rejected
\* by a failed connect sends nothing; and setWritable(true) reaches an owner
\* only in a step in which one of its calls resolves.
C22_WritableOnResolve ==
    [][/\ \A c \in CallIds :
             LET leaves == calls[c].pc \in {"goc_save", "goc_wait"} /\ calls'[c].pc \notin {"goc_save", "goc_wait"}
             IN  /\ (leaves /\ calls'[c].err # "ConnectError") =>
                       /\ writable'[calls[c].owner] = "true"
                       /\ \/ calls[c].pc = "goc_save" /\ IsConnected(calls[c].socket)
                          \/ /\ calls[c].pc = "goc_wait"
                             /\ promises[calls[c].awaiting].st = "resolved"
                             /\ promises[calls[c].awaiting].owner = calls[c].owner
                 /\ (leaves /\ calls'[c].err = "ConnectError") =>
                       /\ writable' = writable
                       /\ promises[calls[c].awaiting].st = "rejected"
       /\ \A o \in Owners :
             (writable'[o] = "true" /\ writable[o] # "true") =>
                 \E c \in CallIds :
                     /\ calls[c].owner = o
                     /\ calls[c].pc \in {"goc_save", "goc_wait"}
                     /\ calls'[c].pc \notin {"goc_save", "goc_wait"}
                     /\ calls'[c].err # "ConnectError"]_vars

\* One create call was rejected by a failed connect and its owner was never
\* told it may write; another owner's create call resolved and it was told.
C22_Witness ==
    \E c \in CallIds, d \in CallIds :
        /\ calls[c].kind = "create" /\ calls[c].pc = "done" /\ calls[c].err = "ConnectError"
        /\ writable[calls[c].owner] = "none"
        /\ calls[d].kind = "create" /\ calls[d].pc = "done" /\ calls[d].err = "none"
        /\ calls[d].owner # calls[c].owner /\ writable[calls[d].owner] = "true"

\* C23: once the sanitizer has run, the payload the reply is built from is
\* still the request as it was parsed from the original string, whatever the
\* sanitizer attached to its own copy, and a delivered reply is the one built
\* from that request: entry for entry it carries the id of the request.
C23_ReplyBuiltFromOriginal ==
    \A c \in CallIds :
        (calls[c].kind = "write" /\ calls[c].final # <<>>) =>
            /\ calls[c].payload = calls[c].raw
            /\ \A i \in 1..Len(calls[c].final) :
                  \A f \in DOMAIN PayloadItems(calls[c].payload)[i] :
                      /\ f \in DOMAIN calls[c].final[i].p
                      /\ PayloadItems(calls[c].payload)[i][f] = calls[c].final[i].p[f]
            /\ (calls[c].pc = "done" /\ calls[c].err = "none") =>
                  calls[c].reply = MakeResponsePayload(calls[c].raw,
                                       [i \in 1..Len(calls[c].final) |-> ExecEntry(calls[c].final[i].p, "result")])
                  \/ calls[c].reply = MakeResponsePayload(calls[c].raw,
                                       [i \in 1..Len(calls[c].final) |-> ExecEntry(calls[c].final[i].p, "nodeError")])
            /\ (calls[c].pc = "done" /\ calls[c].err # "none") =>
                  calls[c].reply = MakeErrorResponsePayload(calls[c].raw, ErrorArg(ErrorNamed(calls[c].err)))

\* A batch was answered whose second entry the sanitizer marked with an
\* error on its copy while the request entry itself carries none.
C23_Witness ==
    \E c \in CallIds :
        /\ calls[c].pc = "done" /\ calls[c].err = "none" /\ IsArray(calls[c].raw)
        /\ Len(calls[c].final) = 2
        /\ Has(calls[c].final[2].p, "error") /\ ~Has(calls[c].payload.v[2], "error")
        /\ ~Has(calls[c].final[1].p, "error")
        /\ Has(calls[c].reply.v[1], "result")

\* C24: a request that failed with a templated error (method denied, method
\* timeout) is answered with the template's message in which the quoted
\* placeholder is the method name of the request; in a batch every entry's
\* message names the method of its own request entry.
C24_MessageNamesMethod ==
    \A c \in CallIds :
        (IsWrite(c) /\ calls[c].pc = "done" /\ calls[c].err \in {"METHOD_DENIED", "METHOD_TIMEOUT"}) =>
            LET items == PayloadItems(calls[c].raw)
                template == ERRORS[calls[c].err].message
            IN  \A i \in 1..Len(items) :
                    Has(items[i], "method") =>
                        calls[c].reply.v[i].error.message =
                            <<template[1], Quoted(items[i].method), template[3]>>

\* C25: in every step in which a call of _getOrCreateConnection resolves,
\* the owner has a connection entry (which is what the call resolves with)
\* and the socket of that entry is connected, whatever happened while the
\* connect was pending.
C25_ResolvesWithConnectedEntry ==
    [][\A c \in CallIds :
          (/\ calls[c].pc \in {"goc_save", "goc_wait"}
           /\ calls'[c].pc \notin {"goc_save", "goc_wait"}
           /\ calls'[c].err # "ConnectError") =>
              /\ connections[calls[c].owner] # 0
              /\ calls'[c].conn = connections[calls[c].owner]
              /\ IsConnected(connections[calls[c].owner])]_vars

\* C26: an owner's entry leaves the table only in a step that completes a
\* teardown (destroy-connection or socket event) of that entry's own socket:
\* a teardown started for an earlier entry of the owner never removes an
\* entry that was created afterwards.
C26_EntryRemovedByOwnTeardown ==
    [][\A o \in Owners :
          (connections[o] # 0 /\ connections'[o] # connections[o]) =>
              \E t \in teardowns \ teardowns' : t.s = connections[o]]_vars

\* C27: in every state in which nothing is in flight (no call inside its
\* chain, no connect promise unsettled, no disconnect and no destroy
\* pending), an owner whose last setWritable was true has a connection
\* entry whose socket is connected.
C27_WritableMeansConnected ==
    (/\ teardowns = {} /\ disconnecting = {}
     /\ \A c \in CallIds : calls[c].pc \in {"idle", "done", "unhandled"}
     /\ \A p \in CallIds : promises[p].st \notin Unsettled) =>
        \A o \in Owners :
            writable[o] = "true" => connections[o] # 0 /\ IsConnected(connections[o])

\* C28: while the node is STOPPING and the disconnects that the change
\* started have completed, no entry's socket is connected, also when a
\* connect was pending or about to be made when STOPPING arrived.
C28_NothingConnectedWhileStopping ==
    (nodeState = "STOPPING" /\ disconnecting = {}) =>
        \A o \in Owners : ~IsConnected(connections[o])

C31_BatchGoesToBaseOnce ==
    /\ [](\A c \in CallIds :
            (IsWrite(c) /\ IsArray(calls[c].raw)) =>
                /\ calls[c].execBy \in {"none", "base"}
                /\ (calls[c].connAtDispatch = "connected" /\ ~NullInside(calls[c].raw)) =>
                      /\ calls[c].execBy = "base"
                      /\ calls[c].pc \in {"sr_exec", "done"}
                      /\ Len(calls[c].final) = Len(calls[c].raw.v)
                      /\ \A i \in 1..Len(calls[c].raw.v) :
                            calls[c].final[i].p.method = calls[c].raw.v[i].method
                      /\ calls[c].toNode = SentToNode(calls[c].final))
    /\ [][\A c \in CallIds :
            /\ (calls'[c].pc = "sr_exec" /\ calls[c].pc # "sr_exec") =>
                  (calls[c].execBy = "none" /\ calls[c].pc \in {"idle", "goc_save", "goc_wait"})
            /\ calls[c].execBy # "none" => calls'[c].execBy = calls[c].execBy
            /\ calls[c].pc \in {"done", "unhandled"} => calls'[c] = calls[c]]_vars

\* A batch whose first entry names a method with a dedicated processor and
\* whose second entry is a plain one was answered through the base processor.
C31_Witness ==
    \E c \in CallIds :
        /\ IsWrite(c) /\ IsArray(calls[c].raw) /\ Len(calls[c].raw.v) = 2
        /\ calls[c].raw.v[1].method = "eth_accounts" /\ calls[c].raw.v[2].method = "eth_call"
        /\ calls[c].execBy = "base" /\ calls[c].toNode = {1, 2}
        /\ calls[c].pc = "done" /\ calls[c].err = "none"

====
